---- MODULE Spec2Model ----
(***************************************************************************)
(* A model of src/main.py: the YouTubeDownloader class and main().         *)
(*                                                                         *)
(* The yt-dlp library, the filesystem and the user's SIGINT are the        *)
(* environment.  Each blocking call of the script is one or two steps, so  *)
(* that a KeyboardInterrupt can be raised while the call is in progress.   *)
(* A KeyboardInterrupt is not an Exception: `except Exception` lets it     *)
(* through, a bare `except:` catches it.                                   *)
(***************************************************************************)
EXTENDS Integers, Sequences, FiniteSets, TLC

\* len(test_urls), src/main.py:43-46
NumProbes == 2
\* len(test_videos), src/main.py:149-152
NumVideos == 2
\* Bound: how many SIGINTs the user sends during one run.
MaxInterrupts == 2
\* Bound: how many non-hidden files one ydl.download call may leave behind.
MaxWritten == 2

VARIABLES
  pc,               \* where main() is
  armed,            \* the try statement of line 135 was entered (its finally is pending)
  created,          \* tempfile.mkdtemp: "pending", "ok" or "failed"
  dirExists,        \* os.path.exists(self.download_dir)
  files,            \* the files in self.download_dir
  probeOk,          \* environment: which test URL's extract_info succeeds
  probeResult,      \* what test_youtube_access returned: "none" (not yet), "true", "false"
  i,                \* the loop counter of the running enumerate() loop
  listing,          \* the result of os.listdir at line 99
  downloaded_file,  \* what download_video returned (NoFile is None)
  removed,          \* os.remove at line 165 returned without raising
  how,              \* which way main() left the try body
  pending,          \* an exception is propagating through the finally clause
  cleanupCalls,     \* how many times cleanup() was invoked
  interrupts,       \* how many SIGINTs were delivered
  exitCode,         \* the process exit status, -1 while running
  trace             \* the calls made and the lines logged, in order

vars == <<pc, armed, created, dirExists, files, probeOk, probeResult, i, listing,
          downloaded_file, removed, how, pending, cleanupCalls, interrupts,
          exitCode, trace>>

\* ------------------------------------------------------------------ data

\* A file of the download directory: the download_video call that wrote it,
\* a number telling the call's files apart, and filename.startswith('.').
File(c, k, h) == [call |-> c, n |-> k, hidden |-> h]

\* None, as the value of downloaded_file.
NoFile == File(0, 0, FALSE)

\* The files ydl.download may write for video c under the outtmpl of line 75.
NewFiles(c) == {File(c, k, FALSE) : k \in 1..MaxWritten} \cup {File(c, 0, TRUE)}

\* The filenames the scan of lines 99-100 accepts.
Visible(S) == {f \in S : ~f.hidden}

\* One call or log line.
Ev(e, n) == [ev |-> e, i |-> n]

\* ------------------------------------------------------------------ init

Init ==
  /\ pc = "main_start"
  /\ armed = FALSE
  /\ created = "pending"
  /\ dirExists = FALSE
  /\ files = {}
  /\ probeOk \in [1..NumProbes -> BOOLEAN]
  /\ probeResult = "none"
  /\ i = 0
  /\ listing = {}
  /\ downloaded_file = NoFile
  /\ removed = FALSE
  /\ how = "running"
  /\ pending = FALSE
  /\ cleanupCalls = 0
  /\ interrupts = 0
  /\ exitCode = -1
  /\ trace = <<>>

\* ---------------------------------------------------- control decisions

\* AfterConstruct with mkdtemp's error swallowed: main() goes on without a
\* directory.
AfterConstruct_Swallowed(ok) == "constructed"

\* main(), line 133: YouTubeDownloader() either returns or mkdtemp's error
\* leaves main() uncaught (the call is outside the try statement).
AfterConstruct(ok) == IF ok THEN "constructed" ELSE "exited"

\* ProbeVerdict with `return False` in the except clause in place of continue.
ProbeVerdict_FailFast(ok, k) == IF ok THEN "true" ELSE "false"

\* test_youtube_access, lines 48-66: one pass of the loop over test_urls.
\* "true": return True (line 59); "none": continue (line 63); "false": the
\* loop is exhausted and line 66 returns False.
ProbeVerdict(ok, k) ==
  IF ok THEN "true" ELSE IF k < NumProbes THEN "none" ELSE "false"

\* AfterProbe without the return of line 144.
AfterProbe_NoReturn(result) == "loop_head"

\* main(), lines 138-146: return when the test failed, else fall into the loop.
AfterProbe(result) == IF result = "true" THEN "loop_head" ELSE "leave"

\* Leave without the finally clause.
Leave_NoFinally(a) == "exited"

\* Leaving the try body (return at 144, falling off at 177, or the end of the
\* KeyboardInterrupt handler): the finally clause of line 183 runs first.
Leave(a) == IF a THEN "finally" ELSE "exited"

\* download_video, lines 99-112: what the scan of a directory listing can
\* return.  os.listdir gives the names in arbitrary order, so any accepted
\* name can be the first one; None when there is none.
ScanResult(L) == IF Visible(L) = {} THEN {NoFile} ELSE Visible(L)

\* AfterResult with a break in the else branch of line 169.
AfterResult_BreakOnFailure(df) == IF df # NoFile THEN "remove" ELSE "finally"

\* AfterResult with the delete made whether or not a file was returned.
AfterResult_AlwaysRemove(df) == "remove"

\* main(), lines 160-170: `if downloaded_file:` goes to the delete, else logs
\* the failure; both continue at line 173.
AfterResult(df) == IF df # NoFile THEN "remove" ELSE "wait_check"

\* RemoveFile that deletes nothing.
RemoveFile_Nothing(S, f) == S

\* os.remove(downloaded_file), line 165, when it succeeds.
RemoveFile(S, f) == S \ {f}

\* NeedsWait with <= for <.
NeedsWait_AfterLastToo(k) == k <= NumVideos

\* main(), line 173: `if i < len(test_videos)`.
NeedsWait(k) == k < NumVideos

\* The trace entry of a KeyboardInterrupt raised while main() is at loc.
InterruptEv(loc) ==
  CASE loc \in {"probe", "probing"} -> "int_probe"
    [] loc \in {"dl_info", "dl_download", "dl_scan"} -> "int_download"
    [] loc = "sleep" -> "int_sleep"
    [] loc = "remove" -> "int_remove"
    [] OTHER -> "int_other"

\* The places of main() before the try statement, and inside its body but
\* outside the inner try of lines 164-168.
BeforeTry == {"main_start", "constructed"}
TryBody == {"probe", "probing", "test_returned", "loop_head", "dl_info",
            "dl_download", "dl_scan", "after_download", "wait_check", "sleep",
            "for_next"}

CanInterrupt == interrupts < MaxInterrupts

\* --------------------------------------------------------------- actions

\* main() line 133, __init__ line 38: tempfile.mkdtemp().
Construct ==
  /\ pc = "main_start"
  /\ \E ok \in BOOLEAN :
       /\ created' = IF ok THEN "ok" ELSE "failed"
       /\ dirExists' = ok
       /\ pc' = AfterConstruct(ok)
       /\ exitCode' = IF AfterConstruct(ok) = "exited" THEN 1 ELSE exitCode
  /\ UNCHANGED <<armed, files, probeOk, probeResult, i, listing, downloaded_file,
                 removed, how, pending, cleanupCalls, interrupts, trace>>

\* main() lines 135-138: the try statement is entered and
\* test_youtube_access() is called.
EnterTry ==
  /\ pc = "constructed"
  /\ armed' = TRUE
  /\ i' = 1
  /\ pc' = "probe"
  /\ UNCHANGED <<created, dirExists, files, probeOk, probeResult, listing,
                 downloaded_file, removed, how, pending, cleanupCalls, interrupts,
                 exitCode, trace>>

\* test_youtube_access lines 49-53: extract_info(url, download=False) is called.
ProbeCall ==
  /\ pc = "probe"
  /\ trace' = Append(trace, Ev("probe", i))
  /\ pc' = "probing"
  /\ UNCHANGED <<armed, created, dirExists, files, probeOk, probeResult, i, listing,
                 downloaded_file, removed, how, pending, cleanupCalls, interrupts,
                 exitCode>>

\* test_youtube_access lines 53-66: the call returns or raises.
ProbeReturn ==
  /\ pc = "probing"
  /\ LET v == ProbeVerdict(probeOk[i], i) IN
       IF v = "none"
       THEN /\ i' = i + 1
            /\ pc' = "probe"
            /\ UNCHANGED probeResult
       ELSE /\ probeResult' = v
            /\ pc' = "test_returned"
            /\ UNCHANGED i
  /\ UNCHANGED <<armed, created, dirExists, files, probeOk, listing,
                 downloaded_file, removed, how, pending, cleanupCalls, interrupts,
                 exitCode, trace>>

\* main() lines 138-154: the branch on the test's result.
MainAfterProbe ==
  /\ pc = "test_returned"
  /\ IF AfterProbe(probeResult) = "loop_head"
     THEN /\ i' = 1
          /\ pc' = "loop_head"
          /\ UNCHANGED <<how, exitCode>>
     ELSE /\ how' = "probe_failed"
          /\ pc' = Leave(armed)
          /\ exitCode' = IF Leave(armed) = "exited" THEN 0 ELSE exitCode
          /\ UNCHANGED i
  /\ UNCHANGED <<armed, created, dirExists, files, probeOk, probeResult, listing,
                 downloaded_file, removed, pending, cleanupCalls, interrupts, trace>>

\* main() lines 155-158, download_video lines 70-86: download_video(video_url)
\* is called and reaches its extract_info call.
DownloadCall ==
  /\ pc = "loop_head"
  /\ trace' = Append(trace, Ev("download", i))
  /\ downloaded_file' = NoFile
  /\ removed' = FALSE
  /\ listing' = {}
  /\ pc' = "dl_info"
  /\ UNCHANGED <<armed, created, dirExists, files, probeOk, probeResult, i, how,
                 pending, cleanupCalls, interrupts, exitCode>>

\* download_video lines 86-92 and 114-116: extract_info returns the metadata,
\* or raises, or (ignoreerrors) returns None so that info.get raises; the
\* except clause logs and returns None.
ExtractInfo ==
  /\ pc = "dl_info"
  /\ \E ok \in BOOLEAN :
       IF ok
       THEN /\ pc' = "dl_download"
            /\ UNCHANGED trace
       ELSE /\ pc' = "after_download"
            /\ trace' = Append(trace, Ev("dl_error", i))
  /\ UNCHANGED <<armed, created, dirExists, files, probeOk, probeResult, i, listing,
                 downloaded_file, removed, how, pending, cleanupCalls, interrupts,
                 exitCode>>

\* download_video lines 96 and 114-116: ydl.download([url]) writes what it
\* writes, then returns or raises.
YdlDownload ==
  /\ pc = "dl_download"
  /\ \E W \in SUBSET NewFiles(i), ok \in BOOLEAN :
       /\ files' = files \cup W
       /\ IF ok
          THEN /\ pc' = "dl_scan"
               /\ UNCHANGED trace
          ELSE /\ pc' = "after_download"
               /\ trace' = Append(trace, Ev("dl_error", i))
  /\ UNCHANGED <<armed, created, dirExists, probeOk, probeResult, i, listing,
                 downloaded_file, removed, how, pending, cleanupCalls, interrupts,
                 exitCode>>

\* download_video lines 99-112: the scan of the download directory.
Scan ==
  /\ pc = "dl_scan"
  /\ listing' = files
  /\ \E f \in ScanResult(files) :
       /\ downloaded_file' = f
       /\ trace' = Append(trace, Ev(IF f = NoFile THEN "not_found" ELSE "found", i))
  /\ pc' = "after_download"
  /\ UNCHANGED <<armed, created, dirExists, files, probeOk, probeResult, i, removed,
                 how, pending, cleanupCalls, interrupts, exitCode>>

\* main() lines 160-170: the report of the item.
Report ==
  /\ pc = "after_download"
  /\ pc' = AfterResult(downloaded_file)
  /\ trace' = Append(trace, Ev(IF downloaded_file # NoFile THEN "ok" ELSE "failed", i))
  /\ UNCHANGED <<armed, created, dirExists, files, probeOk, probeResult, i, listing,
                 downloaded_file, removed, how, pending, cleanupCalls, interrupts,
                 exitCode>>

\* main() lines 164-168: os.remove(downloaded_file) succeeds, or raises and the
\* bare except passes.
Remove ==
  /\ pc = "remove"
  /\ \E ok \in BOOLEAN :
       /\ removed' = ok
       /\ files' = IF ok THEN RemoveFile(files, downloaded_file) ELSE files
       /\ trace' = Append(trace, Ev(IF ok THEN "removed" ELSE "remove_failed", i))
  /\ pc' = "wait_check"
  /\ UNCHANGED <<armed, created, dirExists, probeOk, probeResult, i, listing,
                 downloaded_file, how, pending, cleanupCalls, interrupts, exitCode>>

\* main() lines 173-175: the wait between downloads.
WaitCheck ==
  /\ pc = "wait_check"
  /\ IF NeedsWait(i)
     THEN /\ pc' = "sleep"
          /\ trace' = Append(trace, Ev("sleep", i))
     ELSE /\ pc' = "for_next"
          /\ UNCHANGED trace
  /\ UNCHANGED <<armed, created, dirExists, files, probeOk, probeResult, i, listing,
                 downloaded_file, removed, how, pending, cleanupCalls, interrupts,
                 exitCode>>

\* main() line 175: time.sleep(10) returns.
SleepReturn ==
  /\ pc = "sleep"
  /\ pc' = "for_next"
  /\ UNCHANGED <<armed, created, dirExists, files, probeOk, probeResult, i, listing,
                 downloaded_file, removed, how, pending, cleanupCalls, interrupts,
                 exitCode, trace>>

\* main() lines 154 and 177: the for statement takes the next video or ends.
ForNext ==
  /\ pc = "for_next"
  /\ IF i < NumVideos
     THEN /\ i' = i + 1
          /\ pc' = "loop_head"
          /\ UNCHANGED <<how, exitCode>>
     ELSE /\ how' = "completed"
          /\ pc' = Leave(armed)
          /\ exitCode' = IF Leave(armed) = "exited" THEN 0 ELSE exitCode
          /\ UNCHANGED i
  /\ UNCHANGED <<armed, created, dirExists, files, probeOk, probeResult, listing,
                 downloaded_file, removed, pending, cleanupCalls, interrupts, trace>>

\* A KeyboardInterrupt before the try statement is entered (lines 129-133,
\* the logger.info of line 39 included): nothing catches it.
InterruptBeforeTry ==
  /\ pc \in BeforeTry
  /\ CanInterrupt
  /\ interrupts' = interrupts + 1
  /\ trace' = Append(trace, Ev(InterruptEv(pc), i))
  /\ pc' = "exited"
  /\ exitCode' = 130
  /\ UNCHANGED <<armed, created, dirExists, files, probeOk, probeResult, i, listing,
                 downloaded_file, removed, how, pending, cleanupCalls>>

\* A KeyboardInterrupt in the try body outside lines 164-168.  The except
\* Exception clauses of lines 61 and 114 do not catch it; line 179 does.
InterruptInTry ==
  /\ pc \in TryBody
  /\ CanInterrupt
  /\ interrupts' = interrupts + 1
  /\ trace' = Append(trace, Ev(InterruptEv(pc), i))
  /\ pc' = "except_kbi"
  /\ UNCHANGED <<armed, created, dirExists, files, probeOk, probeResult, i, listing,
                 downloaded_file, removed, how, pending, cleanupCalls, exitCode>>

\* A KeyboardInterrupt during lines 165-166: the bare except of line 167
\* catches it and passes.  The file is gone if os.remove had already returned.
InterruptInRemove ==
  /\ pc = "remove"
  /\ CanInterrupt
  /\ interrupts' = interrupts + 1
  /\ \E gone \in BOOLEAN :
       /\ removed' = gone
       /\ files' = IF gone THEN RemoveFile(files, downloaded_file) ELSE files
  /\ trace' = Append(trace, Ev(InterruptEv(pc), i))
  /\ pc' = "wait_check"
  /\ UNCHANGED <<armed, created, dirExists, probeOk, probeResult, i, listing,
                 downloaded_file, how, pending, cleanupCalls, exitCode>>

\* main() lines 179-180: the KeyboardInterrupt handler.
ExceptKbi ==
  /\ pc = "except_kbi"
  /\ how' = "interrupted"
  /\ pc' = Leave(armed)
  /\ exitCode' = IF Leave(armed) = "exited" THEN 0 ELSE exitCode
  /\ UNCHANGED <<armed, created, dirExists, files, probeOk, probeResult, i, listing,
                 downloaded_file, removed, pending, cleanupCalls, interrupts, trace>>

\* A second KeyboardInterrupt while the handler of line 180 logs: it leaves the
\* try statement through the finally clause.
InterruptInHandler ==
  /\ pc = "except_kbi"
  /\ CanInterrupt
  /\ interrupts' = interrupts + 1
  /\ trace' = Append(trace, Ev(InterruptEv(pc), i))
  /\ how' = "interrupted"
  /\ pending' = TRUE
  /\ pc' = Leave(armed)
  /\ exitCode' = IF Leave(armed) = "exited" THEN 130 ELSE exitCode
  /\ UNCHANGED <<armed, created, dirExists, files, probeOk, probeResult, i, listing,
                 downloaded_file, removed, cleanupCalls>>

\* main() lines 183-184: the finally clause calls downloader.cleanup().
Finally ==
  /\ pc = "finally"
  /\ cleanupCalls' = cleanupCalls + 1
  /\ pc' = "cleanup"
  /\ UNCHANGED <<armed, created, dirExists, files, probeOk, probeResult, i, listing,
                 downloaded_file, removed, how, pending, interrupts, exitCode, trace>>

\* cleanup lines 120-125: shutil.rmtree removes the directory, or raises and the
\* failure is logged.
Cleanup ==
  /\ pc = "cleanup"
  /\ \E ok \in BOOLEAN :
       /\ dirExists' = IF dirExists /\ ok THEN FALSE ELSE dirExists
       /\ files' = IF dirExists /\ ok THEN {} ELSE files
  /\ pc' = "finished"
  /\ UNCHANGED <<armed, created, probeOk, probeResult, i, listing, downloaded_file,
                 removed, how, pending, cleanupCalls, interrupts, exitCode, trace>>

\* A KeyboardInterrupt inside cleanup(): its except Exception does not catch
\* it, and it leaves main() uncaught.  rmtree had finished or had not.
InterruptInCleanup ==
  /\ pc = "cleanup"
  /\ CanInterrupt
  /\ interrupts' = interrupts + 1
  /\ \E gone \in BOOLEAN :
       /\ dirExists' = IF gone THEN FALSE ELSE dirExists
       /\ files' = IF gone THEN {} ELSE files
  /\ trace' = Append(trace, Ev(InterruptEv(pc), i))
  /\ pc' = "exited"
  /\ exitCode' = 130
  /\ UNCHANGED <<armed, created, probeOk, probeResult, i, listing, downloaded_file,
                 removed, how, pending, cleanupCalls>>

\* main() line 185 and the return to line 188: the process exits, with the
\* pending KeyboardInterrupt if there is one.
Finish ==
  /\ pc = "finished"
  /\ pc' = "exited"
  /\ exitCode' = IF pending THEN 130 ELSE 0
  /\ UNCHANGED <<armed, created, dirExists, files, probeOk, probeResult, i, listing,
                 downloaded_file, removed, how, pending, cleanupCalls, interrupts,
                 trace>>

Next ==
  \/ Construct
  \/ EnterTry
  \/ ProbeCall
  \/ ProbeReturn
  \/ MainAfterProbe
  \/ DownloadCall
  \/ ExtractInfo
  \/ YdlDownload
  \/ Scan
  \/ Report
  \/ Remove
  \/ WaitCheck
  \/ SleepReturn
  \/ ForNext
  \/ InterruptBeforeTry
  \/ InterruptInTry
  \/ InterruptInRemove
  \/ ExceptKbi
  \/ InterruptInHandler
  \/ Finally
  \/ Cleanup
  \/ InterruptInCleanup
  \/ Finish

Spec == Init /\ [][Next]_vars

\* ---------------------------------------------------------------- claims

\* The subsequence of the entries of s whose ev is in E.
RECURSIVE Only(_, _)
Only(s, E) ==
  IF s = <<>> THEN <<>>
  ELSE IF Head(s).ev \in E THEN <<Head(s)>> \o Only(Tail(s), E)
  ELSE Only(Tail(s), E)

\* The entries of s, as a set.
Entries(s) == {s[k] : k \in DOMAIN s}

\* s is an initial part of t.
IsPrefix(s, t) == Len(s) <= Len(t) /\ \A k \in 1..Len(s) : s[k] = t[k]

\* download 1, sleep 1, download 2, ..., download NumVideos.
Alternation ==
  [k \in 1..(2 * NumVideos - 1) |->
     IF k % 2 = 1 THEN Ev("download", (k + 1) \div 2) ELSE Ev("sleep", k \div 2)]

\* main() has left its try statement.
Left == pc \in {"finally", "cleanup", "finished", "exited"}

\* C1 as stated: every run of main() that has ended has called cleanup()
\* exactly once.
C1_CleanupExactlyOnceEveryRun == pc = "exited" => cleanupCalls = 1

\* C1 as amended: cleanup() is never called twice; a run that entered the try
\* statement of line 135 ends with exactly one call, whatever the probe, the
\* downloads and the interrupts did; a run that did not enter it ends with no
\* call, and that is a run whose mkdtemp raised or that was interrupted before
\* line 135.
C1_CleanupOnceIffTryEntered ==
  /\ cleanupCalls <= 1
  /\ pc = "exited" => cleanupCalls = (IF armed THEN 1 ELSE 0)
  /\ (pc = "exited" /\ ~armed) =>
        \/ created = "failed"
        \/ trace = <<Ev("int_other", 0)>>

C1_Witness ==
  /\ pc = "exited"
  /\ cleanupCalls = 1
  /\ interrupts > 0
  /\ Ev("download", 1) \in Entries(trace)

\* C2: once test_youtube_access has returned False, no download_video call and
\* no wait between downloads is in the trace, at any later point of the run.
C2_NoDownloadAfterFailedProbe ==
  probeResult = "false" =>
     /\ Only(trace, {"download", "sleep"}) = <<>>
     /\ pc \in {"test_returned", "except_kbi"} \/ Left

C2_Witness == probeResult = "false" /\ pc = "exited" /\ cleanupCalls = 1

C4_WaitsBetweenItemsOnly ==
  LET P == Only(trace, {"download", "sleep"}) IN
    /\ IsPrefix(P, Alternation)
    /\ how = "completed" =>
         /\ P = Alternation
         /\ Len(Only(trace, {"sleep"})) = NumVideos - 1

C4_Witness ==
  /\ how = "completed"
  /\ interrupts = 0
  /\ Ev("failed", 1) \in Entries(trace)
  /\ Ev("sleep", 1) \in Entries(trace)
  /\ pc = "exited"

\* C5: the test URLs are attempted in list order, a URL only after all the
\* earlier ones failed, True is returned at the first URL that succeeds, and
\* False exactly when every URL fails.
C5_ProbeOrderAndResult ==
  LET P == Only(trace, {"probe"}) IN
    /\ Len(P) <= NumProbes
    /\ \A k \in 1..Len(P) : P[k].i = k
    /\ \A k \in 1..(Len(P) - 1) : ~probeOk[k]
    /\ probeResult = "true" => Len(P) >= 1 /\ probeOk[Len(P)]
    /\ probeResult = "false" => Len(P) = NumProbes
    /\ probeResult # "none" =>
         (probeResult = "false" <=> \A k \in 1..NumProbes : ~probeOk[k])

C5_Witness ==
  /\ probeResult = "true"
  /\ probeOk[1]
  /\ ~probeOk[2]
  /\ Only(trace, {"probe"}) = <<Ev("probe", 1)>>
  /\ pc = "exited"

\* C6: when mkdtemp raises, the process has ended with a non-zero status and
\* no probe and no download was attempted.
C6_InitFailureAborts ==
  created = "failed" =>
     /\ pc = "exited"
     /\ exitCode > 0
     /\ Only(trace, {"probe", "download"}) = <<>>

C6_Witness == created = "failed" /\ pc = "exited" /\ exitCode = 1

\* C7: the download_video calls are made for video 1, 2, ... in order, none
\* twice; and a run whose test succeeded and that was not interrupted leaves
\* the loop only after the call for the last video, whatever failed before.
C7_EveryVideoAttemptedOnce ==
  LET D == Only(trace, {"download"}) IN
    /\ Len(D) <= NumVideos
    /\ \A k \in 1..Len(D) : D[k].i = k
    /\ (Left /\ probeResult = "true" /\ interrupts = 0) =>
          /\ Len(D) = NumVideos
          /\ how = "completed"

C7_Witness ==
  /\ pc = "exited"
  /\ interrupts = 0
  /\ Ev("remove_failed", 1) \in Entries(trace)
  /\ Ev("dl_error", 2) \in Entries(trace)

\* C8: when ydl.download returned and the scan lists no non-hidden file,
\* download_video returns None; the loop logs the item as failed and makes no
\* os.remove call for it; and the run ends with cleanup() called.
C8_ArtifactNotFound ==
  /\ (pc = "after_download" /\ Len(trace) > 0
        /\ trace[Len(trace)].ev \in {"found", "not_found"} /\ Visible(listing) = {}) =>
        /\ downloaded_file = NoFile
        /\ trace[Len(trace)] = Ev("not_found", i)
  /\ \A k \in DOMAIN trace :
        trace[k].ev = "not_found" =>
           /\ k < Len(trace) =>
                trace[k + 1] \in {Ev("failed", trace[k].i), Ev("int_other", trace[k].i)}
           /\ \A m \in DOMAIN trace :
                trace[m].ev \in {"removed", "remove_failed", "int_remove"} =>
                   trace[m].i # trace[k].i
           /\ pc = "exited" => cleanupCalls = 1

C8_Witness ==
  /\ pc = "exited"
  /\ Ev("not_found", 1) \in Entries(trace)
  /\ Ev("failed", 1) \in Entries(trace)
  /\ cleanupCalls = 1
  /\ interrupts = 0

\* C9: after a KeyboardInterrupt raised during a probe, a download_video call,
\* the delete of lines 165-166 or the sleep, no probe and no download_video
\* call is started, and the run does not end without cleanup() called.
C9_InterruptAbortsSequence ==
  \A k \in DOMAIN trace :
     trace[k].ev \in {"int_probe", "int_download", "int_remove", "int_sleep"} =>
        /\ \A m \in DOMAIN trace : m > k => trace[m].ev \notin {"probe", "download"}
        /\ pc = "exited" => cleanupCalls = 1

\* C10: a path returned by download_video names a file that this same call
\* wrote.
C10_ReturnedFileIsOfThisCall ==
  (pc = "after_download" /\ downloaded_file # NoFile) => downloaded_file.call = i

====
